---- MODULE Spec2Model ----
(***************************************************************************)
(* Model of the CPU-bound task offload subsystem of nest-advanced-concepts: *)
(*   - FibonacciWorkerHost (src/fibonacci/fibonacci-worker.host.ts): one    *)
(*     worker thread, replies correlated to run() calls by a random id;     *)
(*   - fibonacci.worker (the worker script): fib and its two entry points,  *)
(*     the parentPort 'message' listener and the exported task function;    *)
(*   - FibonacciController: the Piscina thread pool behind GET /fibonacci.  *)
(***************************************************************************)
EXTENDS Integers, Sequences, FiniteSets

\* ------------------------------------------------------------------ bounds
MaxCalls == 2       \* run() calls issued on the host
MaxN == 1           \* inputs are 0..MaxN
MaxInject == 1      \* 'message' events put on the channel by something other than the worker
MaxTasks == 4       \* requests submitted to the pool
MaxWorkers == 2     \* pool size (maxWorkers)
MaxFib == 11        \* the exported task function is called with inputs up to MaxFib
MaxComputes == 2    \* direct calls of the exported task function
MaxProviders == 2   \* providers in the application's container
MaxMethods == 2     \* methods per provider
MaxFires == 2       \* timer callbacks that run

Callers == 1..MaxCalls
Inputs == 0..MaxN
Ids == 1..(MaxCalls + 1)        \* the UUID space: one more id than calls, so an unknown id exists
NoId == 0
Tasks == 1..MaxTasks
Workers == 1..MaxWorkers
NoTask == 0
FibInputs == (0 - 2)..MaxFib
Providers == 1..MaxProviders
Methods == 1..MaxMethods

VARIABLES
    phase,      \* application lifecycle: "constructed" | "bootstrapped" | "shutdown"
    worker,     \* this.worker: "undefined" | "alive" | "terminated" | "crashed"
    listener,   \* whether the worker script installs parentPort.on('message', ...)
    inbox,      \* tasks posted to the worker thread and not yet taken by it
    outbox,     \* 'message' events on their way to the host (message$)
    subs,       \* the calls whose firstValueFrom subscription on message$ is active
    calls,      \* per caller: the run() call and the state of its promise
    issued,     \* ids randomUUID has returned so far
    emitted,    \* per id: the replies the worker has posted for it
    taken,      \* ids of the tasks the worker thread has taken from its port
    injected,   \* number of foreign 'message' events put on the channel
    hostFault,  \* an uncaught exception reached the control thread
    created,    \* number of worker threads the host has created (new Worker)
    terminated, \* number of calls of this.worker.terminate()
    lastEvent,  \* the last 'message' event message$ emitted: its number, its payload,
                \* the subscriptions active when it came and those it resolved
    tasks,      \* pool: per request (numbered in submission order), its state and result
    queue,      \* pool: the queued requests, oldest first
    workers,    \* pool: per worker thread, the task it runs (NoTask when Idle)
    submitted,  \* pool: number of requests submitted so far
    lastDispatch, \* pool: the last task moved from the queue to a worker, and the queue it came from
    computed,   \* the direct calls of the exported task function: input and returned value
    providers,  \* scheduler: per provider of the container, its kind and, per method, its
                \* @Interval metadata
    schedPhase, \* scheduler: which lifecycle hook of IntervalScheduler has run
    intervals,  \* scheduler: this.intervals, the timer references it has kept
    active,     \* scheduler: the interval timers set in the runtime and not cleared
    fires       \* scheduler: number of timer callbacks that have run

hostVars == <<worker, listener, inbox, outbox, subs, calls, issued, emitted, taken,
              injected, hostFault, created, terminated, lastEvent>>
poolVars == <<tasks, queue, workers, submitted, lastDispatch>>
schedVars == <<providers, schedPhase, intervals, active, fires>>
auxVars == <<computed, schedVars>>
vars == <<phase, hostVars, poolVars, auxVars>>

\* ------------------------------------------------------------ worker script
\* A fib whose base case is off by one.
RECURSIVE FibOffByOne(_)
FibOffByOne(n) == IF n <= 2 THEN n ELSE FibOffByOne(n - 1) + FibOffByOne(n - 2)

\* fib(n): n for n < 2, else fib(n-1) + fib(n-2)
RECURSIVE fib(_)
fib(n) == IF n < 2 THEN n ELSE fib(n - 1) + fib(n - 2)

\* The deepest recursion the worker's stack holds. Every input of 0..MaxN is within
\* it; the input beyond stands for those on which fib exceeds the stack (an n of the
\* order of 10^4 and more, or NaN, for which n < 2 is never true).
StackLimit == MaxN
TooDeep == StackLimit + 1

\* fib(n) throws a RangeError (maximum call stack size exceeded)
Throws(n) == n > StackLimit

\* ------------------------------------------------------------------- host
\* A run() call: its input and id, the state of its promise (settles counts the times
\* the promise was resolved or rejected), the lifecycle phase it was made in and the
\* calls that were waiting when it was made.
NoCall == [status |-> "idle", n |-> 0, id |-> NoId, result |-> 0, settles |-> 0,
           at |-> "none", err |-> "none", with |-> {}]

\* A result no task of the model computes: the payload of a foreign reply.
OrphanResult == fib(MaxN) + 1

\* A generator that may return an id it has returned before.
RandomAny == Ids

\* randomUUID(): the values it may return, an id it has not returned before
randomUUID == Ids \ issued

\* A filter that lets every message through.
FilterAny(uniqueId, msg) == TRUE

\* A filter with the comparison inverted.
FilterNot(uniqueId, msg) == msg.id # uniqueId

\* filter(({ id }) => id === uniqueId)
Filter(uniqueId, msg) == msg.id = uniqueId

\* map(({ result }) => result)
Map(msg) == msg.result

\* A subscription that stays active after its first value (subscribe, not firstValueFrom).
KeepSubscribed(S, matched) == S

\* A matching value that ends every subscription, not only its own.
UnsubscribeAll(S, matched) == IF matched = {} THEN S ELSE {}

\* firstValueFrom: the subscription ends with the first value that passes the filter
Unsubscribe(S, matched) == S \ matched

\* The sequence q without its i-th element
Without(q, i) == [j \in 1..(Len(q) - 1) |-> IF j < i THEN q[j] ELSE q[j + 1]]

\* A worker that handles the newest posted task first.
HandledLast(q) == Len(q)

\* The posted task the worker's 'message' listener is called with next: the port
\* delivers the messages of the host in the order they were posted
Handled(q) == 1

PendingIds == {calls[c].id : c \in {d \in Callers : calls[d].status = "pending"}}

\* A control thread on which handlers interleave with a run() that has not returned.
ControlThreadAny == TRUE

\* The control thread runs one handler to completion: while a run() call is between
\* its postMessage and its firstValueFrom, no other handler of the host runs and no
\* 'message' event is dispatched. The worker thread runs in parallel.
ControlThreadFree == \A c \in Callers : calls[c].status # "posting"

\* The container of the repository: CronService, an @IntervalHost whose method
\* everySecond is decorated @Interval(1000), and providers without either decorator.
RepositoryProviders ==
    [p \in Providers |->
        [kind |-> IF p = 1 THEN "host" ELSE "plain",
         interval |-> [m \in Methods |-> IF p = 1 /\ m = 1 THEN "1000" ELSE "undefined"]]]

InitBase ==
    /\ phase = "constructed"
    /\ worker = "undefined"
    /\ listener \in BOOLEAN
    /\ inbox = <<>>
    /\ outbox = <<>>
    /\ subs = {}
    /\ calls = [c \in Callers |-> NoCall]
    /\ issued = {}
    /\ emitted = [i \in Ids |-> 0]
    /\ taken = {}
    /\ injected = 0
    /\ hostFault = FALSE
    /\ created = 0
    /\ terminated = 0
    /\ lastEvent = [k |-> 0, id |-> NoId, result |-> 0, waiting |-> {}, matched |-> {}]
    /\ tasks = [t \in Tasks |-> [state |-> "new", n |-> 0, result |-> 0]]
    /\ queue = <<>>
    /\ workers = [w \in Workers |-> NoTask]
    /\ submitted = 0
    /\ lastDispatch = [task |-> NoTask, from |-> <<>>]
    /\ computed = <<>>
    /\ schedPhase = "constructed"
    /\ intervals = <<>>
    /\ active = {}
    /\ fires = 0

Init == InitBase /\ providers = RepositoryProviders

\* onApplicationBootstrap(): new Worker(...), message$ = fromEvent(worker, 'message')
onApplicationBootstrap ==
    /\ ControlThreadFree
    /\ phase = "constructed"
    /\ phase' = "bootstrapped"
    /\ worker' = "alive"
    /\ created' = created + 1
    /\ UNCHANGED <<listener, inbox, outbox, subs, calls, issued, emitted, taken,
                   injected, hostFault, lastEvent, terminated, poolVars, auxVars>>

\* A shutdown hook that does not terminate the worker.
ShutdownWithoutTerminate ==
    /\ ControlThreadFree
    /\ phase = "bootstrapped"
    /\ ~hostFault
    /\ phase' = "shutdown"
    /\ UNCHANGED <<worker, listener, inbox, outbox, subs, calls, issued, emitted, taken,
                   injected, hostFault, lastEvent, created, terminated, poolVars, auxVars>>

\* onApplicationShutdown(): await this.worker.terminate(). The thread stops, the tasks
\* it has not taken are lost; replies it had already posted may or may not still be
\* emitted. Nothing is done about the subscriptions.
onApplicationShutdown ==
    /\ ControlThreadFree
    /\ phase = "bootstrapped"
    /\ ~hostFault
    /\ phase' = "shutdown"
    /\ worker' = IF worker = "alive" THEN "terminated" ELSE worker
    /\ inbox' = <<>>
    /\ outbox' \in {outbox, <<>>}
    /\ terminated' = terminated + 1
    /\ UNCHANGED <<listener, subs, calls, issued, emitted, taken, injected,
                   hostFault, lastEvent, created, poolVars, auxVars>>

\* run(n), called by caller c; callers are numbered in the order of their calls.
\* Its first two statements:
\*   uniqueId = randomUUID(); this.worker.postMessage({ n, id })
\* this.worker undefined: postMessage throws a TypeError, the async function's promise
\* is rejected with it. A worker that is no longer running discards the message.
run(c, n) ==
    /\ ControlThreadFree
    /\ ~hostFault
    /\ calls[c].status = "idle"
    /\ \A d \in Callers : d < c => calls[d].status # "idle"
    /\ \E uniqueId \in randomUUID :
        /\ issued' = issued \cup {uniqueId}
        /\ IF worker = "undefined"
           THEN /\ calls' = [calls EXCEPT ![c] =
                       [status |-> "rejected", n |-> n, id |-> uniqueId, result |-> 0,
                        settles |-> 1, at |-> phase, err |-> "TypeError", with |-> subs]]
                /\ UNCHANGED inbox
           ELSE /\ inbox' = IF worker = "alive"
                            THEN Append(inbox, [n |-> n, id |-> uniqueId])
                            ELSE inbox
                /\ calls' = [calls EXCEPT ![c] =
                       [status |-> "posting", n |-> n, id |-> uniqueId, result |-> 0,
                        settles |-> 0, at |-> phase, err |-> "none", with |-> subs]]
    /\ UNCHANGED <<phase, worker, listener, outbox, subs, emitted, taken, injected,
                   hostFault, lastEvent, created, terminated, poolVars, auxVars>>

\* run(n), its last statement, in the same turn of the control thread:
\*   return firstValueFrom(this.message$.pipe(filter(...), map(...)))
\* subscribes to message$ and returns the pending promise.
firstValueFrom(c) ==
    /\ calls[c].status = "posting"
    /\ subs' = subs \cup {c}
    /\ calls' = [calls EXCEPT ![c].status = "pending"]
    /\ UNCHANGED <<phase, worker, listener, inbox, outbox, issued, emitted, taken,
                   injected, hostFault, lastEvent, created, terminated, poolVars, auxVars>>

\* The worker thread, with the parentPort listener installed:
\*   parentPort.on('message', ({ n, id }) => { result = fib(n); postMessage({ result, id }) })
WorkerOnMessage ==
    /\ worker = "alive"
    /\ listener
    /\ inbox # <<>>
    /\ LET task == inbox[Handled(inbox)] IN
        /\ ~Throws(task.n)
        /\ outbox' = Append(outbox, [id |-> task.id, result |-> fib(task.n)])
        /\ emitted' = [emitted EXCEPT ![task.id] = @ + 1]
        /\ taken' = taken \cup {task.id}
    /\ inbox' = Without(inbox, Handled(inbox))
    /\ UNCHANGED <<phase, worker, listener, subs, calls, issued, injected,
                   hostFault, lastEvent, created, terminated, poolVars, auxVars>>

\* The worker thread running the script as it stands: the listener is commented out,
\* the script only exports the task function, and a posted task gets no reply.
WorkerNoListener ==
    /\ worker = "alive"
    /\ ~listener
    /\ inbox # <<>>
    /\ taken' = taken \cup {Head(inbox).id}
    /\ inbox' = Tail(inbox)
    /\ UNCHANGED <<phase, worker, listener, outbox, subs, calls, issued, emitted,
                   injected, hostFault, lastEvent, created, terminated, poolVars, auxVars>>

\* message$ emits one 'message' event to every active subscription of run():
\* those whose filter passes resolve with map's value and unsubscribe.
HostOnMessage ==
    /\ ControlThreadFree
    /\ ~hostFault
    /\ outbox # <<>>
    /\ LET msg == Head(outbox)
           matched == {c \in subs : Filter(calls[c].id, msg)}
       IN  /\ calls' = [c \in Callers |->
                  IF c \in matched
                  THEN [calls[c] EXCEPT !.status = "resolved", !.result = Map(msg),
                                        !.settles = @ + 1]
                  ELSE calls[c]]
           /\ subs' = Unsubscribe(subs, matched)
    /\ outbox' = Tail(outbox)
    /\ lastEvent' = [k |-> lastEvent.k + 1, id |-> Head(outbox).id,
                     result |-> Head(outbox).result, waiting |-> subs,
                     matched |-> {c \in subs : Filter(calls[c].id, Head(outbox))}]
    /\ UNCHANGED <<phase, worker, listener, inbox, issued, emitted, taken, injected,
                   hostFault, created, terminated, poolVars, auxVars>>

\* A 'message' event the worker did not post for a pending task: a reply with an id
\* no pending call waits for (an unknown id, or the id of a call already settled).
\* Ids are unique: randomUUID never returns an id that is already on the channel.
InjectReply(id) ==
    /\ ControlThreadFree
    /\ ~hostFault
    /\ worker # "undefined"
    /\ injected < MaxInject
    /\ id \notin PendingIds
    /\ outbox' = Append(outbox, [id |-> id, result |-> OrphanResult])
    /\ injected' = injected + 1
    /\ issued' = issued \cup {id}
    /\ UNCHANGED <<phase, worker, listener, inbox, subs, calls, emitted, taken,
                   hostFault, lastEvent, created, terminated, poolVars, auxVars>>

\* The worker thread dies. The host listens to neither 'error' nor 'exit': an 'exit'
\* goes unnoticed, an 'error' event without a listener is thrown on the control thread.
WorkerCrash(event) ==
    /\ worker = "alive"
    /\ worker' = "crashed"
    /\ inbox' = <<>>
    /\ hostFault' = (event = "error")
    /\ UNCHANGED <<phase, listener, outbox, subs, calls, issued, emitted, taken,
                   injected, lastEvent, created, terminated, poolVars, auxVars>>

\* The listener is called with a task on which fib throws. Nothing catches it: no
\* reply is posted, the exception ends the worker thread, and the worker's 'error'
\* event, for which the host has no listener, is thrown on the control thread.
WorkerThrows ==
    /\ worker = "alive"
    /\ listener
    /\ inbox # <<>>
    /\ Throws(inbox[Handled(inbox)].n)
    /\ taken' = taken \cup {inbox[Handled(inbox)].id}
    /\ inbox' = <<>>
    /\ worker' = "crashed"
    /\ hostFault' = TRUE
    /\ UNCHANGED <<phase, listener, outbox, subs, calls, issued, emitted, injected,
                   lastEvent, created, terminated, poolVars, auxVars>>

Next ==
    \/ onApplicationBootstrap
    \/ onApplicationShutdown
    \/ \E c \in Callers, n \in Inputs : run(c, n)
    \/ \E c \in Callers : firstValueFrom(c)
    \/ WorkerOnMessage
    \/ WorkerNoListener
    \/ HostOnMessage
    \/ \E id \in Ids : InjectReply(id)
    \/ \E event \in {"error", "exit"} : WorkerCrash(event)

Spec == Init /\ [][Next]_vars

\* The host with callers that also pass an input on which fib throws.
FailNext ==
    \/ Next
    \/ \E c \in Callers : run(c, TooDeep)
    \/ WorkerThrows

FailSpec == Init /\ [][FailNext]_vars

\* ---------------------------------------------------------- claims, host
Settled(c) == calls[c].status \in {"resolved", "rejected"}

\* The step is message$ emitting its next event (the head of outbox).
Emits == lastEvent'.k = lastEvent.k + 1

C2_NoCrossTalk ==
    [][(Emits /\ Head(outbox).id \notin PendingIds)
          => (calls' = calls /\ subs' = subs /\ hostFault' = hostFault)]_vars

\* An event with an unknown id was emitted while calls were waiting; they still wait.
C2_Witness ==
    /\ lastEvent.k > 0
    /\ lastEvent.id \notin {calls[c].id : c \in Callers}
    /\ lastEvent.waiting # {}
    /\ lastEvent.matched = {}
    /\ \A c \in lastEvent.waiting : calls[c].status = "pending" /\ c \in subs
    /\ ~hostFault

C4_ShutdownDrains ==
    phase = "shutdown" =>
        \A c \in Callers : calls[c].at \in {"constructed", "bootstrapped"}
                              => calls[c].status # "pending"

\* C5 - worker crash: the step in which the worker dies rejects every call pending at
\* that moment with a worker-crashed error.
C5_CrashRejects ==
    [][(worker = "alive" /\ worker' = "crashed")
          => \A c \in Callers : calls[c].status = "pending"
                => (calls'[c].status = "rejected" /\ calls'[c].err = "WorkerCrashed")]_vars

\* C6 - one reply per task: every task the worker thread has taken from its port has
\* exactly one reply posted for it.
C6_ExactlyOneReply ==
    \A id \in taken : emitted[id] = 1

\* C7 - no run() after shutdown: a call made once shutdown has happened is rejected
\* with a host-shutting-down error.
C7_RunAfterShutdownRejected ==
    \A c \in Callers : calls[c].at = "shutdown"
        => (calls[c].status = "rejected" /\ calls[c].err = "HostShuttingDown")


\* C11 - worker lifecycle: the host creates its worker once, at bootstrap, and
\* terminates it once, at shutdown; a run() made before the worker exists posts
\* nothing (it is rejected), and no second worker is ever created.
C11_WorkerLifecycle ==
    /\ created = (IF phase = "constructed" THEN 0 ELSE 1)
    /\ terminated = (IF phase = "shutdown" THEN 1 ELSE 0)
    /\ (worker = "undefined") <=> (created = 0)
    /\ phase = "shutdown" => worker \in {"terminated", "crashed"}
    /\ worker = "undefined" => inbox = <<>> /\ outbox = <<>> /\ subs = {}
    /\ \A c \in Callers : calls[c].at = "constructed"
          => (calls[c].status = "rejected" /\ calls[c].err = "TypeError"
              /\ calls[c].id \notin taken)

\* After shutdown: one worker was created and terminated, a call made before bootstrap
\* was rejected without posting, and a call made after it was served by the worker.
C11_Witness ==
    /\ phase = "shutdown" /\ created = 1 /\ terminated = 1 /\ worker = "terminated"
    /\ \E c, d \in Callers :
        /\ calls[c].at = "constructed" /\ calls[c].status = "rejected"
        /\ calls[d].at = "bootstrapped" /\ calls[d].status = "resolved"
        /\ calls[d].id \in taken

Issued(c) == calls[c].status \in {"pending", "resolved"}

\* C17 - subscriptions: the active subscriptions are exactly the calls that were
\* issued and have not received their reply, and a subscription ends only in the step
\* in which message$ emits the reply with its own id (so never, if that never comes).
C17_Subscriptions ==
    [][/\ subs' = {c \in Callers : Issued(c)' /\ calls'[c].status # "resolved"}
       /\ \A c \in subs : c \notin subs'
            => (Emits /\ Head(outbox).id = calls[c].id /\ calls'[c].status = "resolved")]_vars

\* A subscription left behind by shutdown: the call waits, its task and every reply
\* are gone, and the subscription is still active.
C17_Witness ==
    /\ phase = "shutdown"
    /\ inbox = <<>> /\ outbox = <<>>
    /\ lastEvent.k > 0
    /\ \E c \in subs : calls[c].status = "pending" /\ calls[c].at = "bootstrapped"
                        /\ emitted[calls[c].id] = 0

WorkerTask(n) == fib(n)

\* A pool that hands a task to a thread whether or not it is Busy.
AvailableAny == Workers

\* The Idle threads of the pool: those a submitted task can be given to at once
Available == {w \in Workers : workers[w] = NoTask}

\* A pool that takes the newest queued task.
PickLast(q) == Len(q)

\* The position in the queue of the task an Idle thread is given: the oldest
Pick(q) == 1

Running == {t \in Tasks : tasks[t].state = "running"}
Queued == {t \in Tasks : tasks[t].state = "queued"}

\* Piscina.run(n) for the t-th request: the pool gives the task to an Idle thread, or
\* queues it when every thread is Busy.
PoolRun(t, n) ==
    IF Available # {}
    THEN /\ \E w \in Available : workers' = [workers EXCEPT ![w] = t]
         /\ tasks' = [tasks EXCEPT ![t] = [state |-> "running", n |-> n, result |-> 0]]
         /\ UNCHANGED <<queue, lastDispatch>>
    ELSE /\ queue' = Append(queue, t)
         /\ tasks' = [tasks EXCEPT ![t] = [state |-> "queued", n |-> n, result |-> 0]]
         /\ UNCHANGED <<workers, lastDispatch>>

\* GET /fibonacci?n= : fibonacci(n) returns this.fibonacciWorker.run(n). Requests come
\* while the application is up.
fibonacci(n) ==
    /\ phase = "bootstrapped"
    /\ submitted < MaxTasks
    /\ submitted' = submitted + 1
    /\ PoolRun(submitted + 1, n)
    /\ UNCHANGED <<phase, hostVars, auxVars>>

\* Thread w returns its task's value: the request resolves with it, and the thread
\* takes the next queued task or becomes Idle.
PoolOnReply(w) ==
    /\ workers[w] # NoTask
    /\ LET t == workers[w]
           done == [tasks EXCEPT ![t].state = "done", ![t].result = WorkerTask(tasks[t].n)]
       IN  IF queue # <<>>
           THEN LET i == Pick(queue) IN
                /\ workers' = [workers EXCEPT ![w] = queue[i]]
                /\ tasks' = [done EXCEPT ![queue[i]].state = "running"]
                /\ queue' = Without(queue, i)
                /\ lastDispatch' = [task |-> queue[i], from |-> queue]
           ELSE /\ workers' = [workers EXCEPT ![w] = NoTask]
                /\ tasks' = done
                /\ UNCHANGED <<queue, lastDispatch>>
    /\ UNCHANGED <<phase, hostVars, auxVars, submitted>>

\* The application with requests served by the controller's pool. FibonacciController
\* has no lifecycle hook: bootstrap and shutdown run the host's hooks only.
PoolNext ==
    \/ onApplicationBootstrap
    \/ onApplicationShutdown
    \/ \E n \in Inputs : fibonacci(n)
    \/ \E w \in Workers : PoolOnReply(w)

PoolSpec == Init /\ [][PoolNext]_vars

\* A Busy thread finishes its task: fib terminates and the threads run in parallel.
PoolFairSpec == PoolSpec /\ \A w \in Workers : WF_vars(PoolOnReply(w))

\* ---------------------------------------------------------- claims, pool
\* C8 - the pool bounds concurrency: never more than MaxWorkers tasks are running, a
\* task that is not running or finished waits in the queue, and every queued task
\* eventually completes.
C8_PoolBounds ==
    /\ [](/\ Cardinality(Running) <= MaxWorkers
          /\ \A t \in Tasks : t <= submitted
                => (tasks[t].state \in {"running", "done"}
                    \/ (tasks[t].state = "queued" /\ \E i \in 1..Len(queue) : queue[i] = t)))
    /\ \A t \in Tasks : (tasks[t].state = "queued") ~> (tasks[t].state = "done")

\* More submissions than threads: a task that had to wait in the queue (every thread
\* was Busy when it came) has completed, while the threads are all Busy again.
C8_Witness ==
    /\ submitted > MaxWorkers
    /\ Cardinality(Running) = MaxWorkers
    /\ \E t \in Tasks : t > MaxWorkers /\ t < lastDispatch.task /\ tasks[t].state = "done"
    /\ lastDispatch.task # NoTask
    /\ Len(lastDispatch.from) >= 1
    /\ tasks[lastDispatch.task].state = "running"

\* C9 - FIFO queueing: a task submitted while every thread is Busy is queued, the
\* queue is in submission order, and a task that goes from the queue to a thread is
\* the earliest submitted of the queued tasks.
C9_Fifo ==
    [][/\ \A t \in Tasks :
            (tasks[t].state = "queued" /\ tasks'[t].state = "running")
               => \A u \in Queued : t <= u
       /\ (submitted' = submitted + 1 /\ Available = {})
            => tasks'[submitted'].state = "queued" /\ queue' = Append(queue, submitted')
       /\ \A i, j \in 1..Len(queue') : i < j => queue'[i] < queue'[j]]_vars

\* A thread that became free took the oldest of at least two queued tasks.
C9_Witness ==
    /\ lastDispatch.task # NoTask
    /\ Len(lastDispatch.from) >= 2
    /\ lastDispatch.task = lastDispatch.from[1]
    /\ tasks[lastDispatch.task].state = "running"
    /\ \E w \in Workers : workers[w] = lastDispatch.task
    /\ queue = Tail(lastDispatch.from)

\* C10 - pool shutdown: once the application has shut down, no request of the pool is
\* queued or in flight and no thread of the pool runs a task.
C10_PoolShutdown ==
    phase = "shutdown" =>
        /\ \A t \in Tasks : tasks[t].state \notin {"queued", "running"}
        /\ \A w \in Workers : workers[w] = NoTask
        /\ queue = <<>>

\* ------------------------------------------------ the exported task function
\* An iterative Fibonacci: a, b are F(i), F(i+1) with k steps to go.
RECURSIVE FibIter(_, _, _)
FibIter(k, a, b) == IF k = 0 THEN a ELSE FibIter(k - 1, b, a + b)

\* The reference: n below 2, the n-th Fibonacci number from 2 on.
FibRef(n) == IF n < 2 THEN n ELSE FibIter(n, 0, 1)

\* The exported function called on its own (a test of compute in isolation).
compute(n) ==
    /\ Len(computed) < MaxComputes
    /\ computed' = Append(computed, [n |-> n, result |-> WorkerTask(n)])
    /\ UNCHANGED <<phase, hostVars, poolVars, schedVars>>

FibNext == \E n \in FibInputs : compute(n)

FibSpec == Init /\ [][FibNext]_vars

\* C12 - compute is pure and is the Fibonacci reference: every value it returned is n
\* for n < 2 and the sum of its values at n-1 and n-2 otherwise, equals the iterative
\* reference, is 0, 1 and 55 at 0, 1 and 10, and is the same for the same input.
C12_FibReference ==
    /\ \A i \in 1..Len(computed) :
        LET n == computed[i].n
            r == computed[i].result
        IN  /\ r = FibRef(n)
            /\ n < 2 => r = n
            /\ n >= 2 => r = WorkerTask(n - 1) + WorkerTask(n - 2)
            /\ n = 0 => r = 0
            /\ n = 1 => r = 1
            /\ n = 10 => r = 55
    /\ \A i, j \in 1..Len(computed) :
        computed[i].n = computed[j].n => computed[i].result = computed[j].result

\* compute(10) was called twice and returned 55 both times.
C12_Witness ==
    /\ Len(computed) >= 2
    /\ computed[1] = [n |-> 10, result |-> 55]
    /\ computed[2] = [n |-> 10, result |-> 55]

\* ------------------------------------------------------------- scheduler
\* The (provider, method) pairs in the order forEach visits them
AllPairs == [i \in 1..(MaxProviders * MaxMethods) |->
                <<((i - 1) \div MaxMethods) + 1, ((i - 1) % MaxMethods) + 1>>]

\* A pair for which onApplicationBootstrap sets a timer: the provider has an instance
\* and the @IntervalHost metadata, the method has @Interval metadata
Scheduled(pair) ==
    /\ providers[pair[1]].kind = "host"
    /\ providers[pair[1]].interval[pair[2]] # "undefined"

\* A shutdown hook that clears only the first timer it kept.
ClearedFirst(refs) == IF refs = <<>> THEN {} ELSE {refs[1]}

\* this.intervals.forEach((intervalRef) => clearInterval(intervalRef))
Cleared(refs) == {refs[i] : i \in 1..Len(refs)}

ProviderConfigs ==
    [Providers -> [kind : {"noInstance", "plain", "host"},
                   interval : [Methods -> {"undefined", "1000"}]]]

SchedInit == InitBase /\ providers \in ProviderConfigs

\* IntervalScheduler.onApplicationBootstrap(): for every provider with an instance and
\* @IntervalHost, for every method with @Interval, setInterval and keep the reference.
IntervalScheduler_onApplicationBootstrap ==
    /\ schedPhase = "constructed"
    /\ schedPhase' = "bootstrapped"
    /\ LET refs == SelectSeq(AllPairs, Scheduled) IN
        /\ intervals' = intervals \o refs
        /\ active' = active \cup {refs[i] : i \in 1..Len(refs)}
    /\ UNCHANGED <<phase, hostVars, poolVars, computed, providers, fires>>

\* An interval timer fires: () => instance[methodKey]()
IntervalFires(ref) ==
    /\ ref \in active
    /\ fires < MaxFires
    /\ fires' = fires + 1
    /\ UNCHANGED <<phase, hostVars, poolVars, computed, providers, schedPhase,
                   intervals, active>>

\* IntervalScheduler.onApplicationShutdown(): clearInterval for every kept reference.
IntervalScheduler_onApplicationShutdown ==
    /\ schedPhase = "bootstrapped"
    /\ schedPhase' = "shutdown"
    /\ active' = active \ Cleared(intervals)
    /\ UNCHANGED <<phase, hostVars, poolVars, computed, providers, intervals, fires>>

SchedNext ==
    \/ IntervalScheduler_onApplicationBootstrap
    \/ \E p \in Providers, m \in Methods : IntervalFires(<<p, m>>)
    \/ IntervalScheduler_onApplicationShutdown

SchedSpec == SchedInit /\ [][SchedNext]_vars

\* The methods decorated @Interval of the providers decorated @IntervalHost
Decorated ==
    {<<p, m>> : p \in {q \in Providers : providers[q].kind = "host"},
                m \in Methods} \cap
    {pair \in Providers \X Methods : providers[pair[1]].interval[pair[2]] # "undefined"}

\* C16 - interval cleanup: bootstrap sets exactly one timer per decorated method of a
\* decorated provider and keeps its reference; after shutdown no timer is active and
\* no scheduled method is invoked again.
C16_IntervalCleanup ==
    [][/\ schedPhase' = "bootstrapped"
            => (active' = Decorated' /\ Len(intervals') = Cardinality(Decorated'))
       /\ schedPhase' = "shutdown" => active' = {}
       /\ schedPhase = "shutdown" => fires' = fires]_vars

\* Two timers were set, a scheduled method ran, and shutdown has cleared both.
C16_Witness ==
    /\ schedPhase = "shutdown"
    /\ Len(intervals) >= 2
    /\ fires >= 1
    /\ active = {}

====
